---- MODULE Spec2Model ----
(***************************************************************************)
(* Crowding correction and export of tess_cbvs_correction_toi-560.ipynb.   *)
(*                                                                         *)
(* The notebook's own logic is the crowding-correction cell (lines         *)
(* 455-468), the normalisation cell (516-518) and the save cell (527-531). *)
(* Each statement of these cells is one action.                            *)
(*                                                                         *)
(* Numbers.  The cells compute with IEEE-754 doubles (numpy).  A number is *)
(* modelled as a pair <<n, d>> with d >= 0 in lowest terms:                *)
(*    d > 0            the finite value n/d (rounding is not modelled),    *)
(*    <<1, 0>>         +inf,   <<-1, 0>>  -inf,   <<0, 0>>  nan.           *)
(* numpy division by zero yields inf/nan (with a RuntimeWarning, which is  *)
(* not an exception); comparisons with nan are false.                      *)
(***************************************************************************)
EXTENDS Integers, Sequences, FiniteSets, TLC

\* Longest light curve explored.
MaxLen == 3

VARIABLES
    time,           \* tpf.time.value                              (line 468)
    flux,           \* cbvCorrector.corrected_lc.flux.value        (457, 461)
    flux_err,       \* cbvCorrector.corrected_lc.flux_err.value    (466)
    corrected_by,   \* the correction that produced cbvCorrector.corrected_lc
    CROWDSAP,       \* tpf.hdu[1].header['CROWDSAP']               (421)
    FLFRCSAP,       \* tpf.hdu[1].header['FLFRCSAP']               (431)
    median_flux, excess_flux, flux_removed, flux_corr, flux_err_corr,
    lc_cbv_corr,    \* the LightCurve built at line 468
    e, f,           \* normalised error and flux                   (517, 518)
    disk,           \* content of the file named fname, a sequence of pieces
    datos,          \* the file handle: "none", "open" or "closed"
    i,              \* loop index of the save cell
    bound,          \* names bound so far in the kernel's namespace
    exc,            \* exception that ended the run, or "none"
    pc

vars == <<time, flux, flux_err, corrected_by, CROWDSAP, FLFRCSAP, median_flux, excess_flux,
          flux_removed, flux_corr, flux_err_corr, lc_cbv_corr, e, f, disk,
          datos, i, bound, exc, pc>>

-----------------------------------------------------------------------------
(* Floating-point values *)

Abs(x) == IF x < 0 THEN -x ELSE x

Sgn(x) == IF x > 0 THEN 1 ELSE IF x < 0 THEN -1 ELSE 0

RECURSIVE GCD(_, _)
GCD(a, b) == IF b = 0 THEN a ELSE GCD(b, a % b)

\* The value n/d in the representation above.
Num(n, d) ==
    IF d = 0 THEN <<Sgn(n), 0>>
    ELSE LET s == Sgn(d)
             g == GCD(Abs(n), Abs(d))
         IN  <<(s * n) \div g, (s * d) \div g>>

OfInt(n) == <<n, 1>>
Zero == <<0, 1>>
One == <<1, 1>>
NaN == <<0, 0>>

IsNaN(a) == a = NaN
IsFinite(a) == a[2] > 0

\* a + b: nan propagates, inf + -inf = nan.
Add(a, b) ==
    IF IsNaN(a) \/ IsNaN(b) THEN NaN
    ELSE IF ~IsFinite(a) THEN (IF ~IsFinite(b) /\ b # a THEN NaN ELSE a)
    ELSE IF ~IsFinite(b) THEN b
    ELSE Num(a[1] * b[2] + b[1] * a[2], a[2] * b[2])

Neg(a) == <<-a[1], a[2]>>

Sub(a, b) == Add(a, Neg(b))

\* a * b: 0 * inf = nan.
Mul(a, b) == Num(a[1] * b[1], a[2] * b[2])

\* a / b as numpy divides: x/0 = +-inf, 0/0 = nan, x/inf = 0, no exception.
Div(a, b) ==
    IF IsNaN(a) \/ IsNaN(b) THEN NaN
    ELSE IF b[1] < 0 THEN Mul(a, <<-b[2], -b[1]>>)
    ELSE Mul(a, <<b[2], b[1]>>)

\* a == b and a < b of IEEE doubles: false when either side is nan.
FEq(a, b) == ~IsNaN(a) /\ ~IsNaN(b) /\ a = b

Less(a, b) ==
    /\ ~IsNaN(a) /\ ~IsNaN(b) /\ a # b
    /\ IF IsFinite(a) /\ IsFinite(b) THEN a[1] * b[2] < b[1] * a[2]
       ELSE IF ~IsFinite(a) THEN a[1] < 0
       ELSE b[1] > 0

-----------------------------------------------------------------------------
(* numpy operations used by the cells *)

\* s with x inserted before the first element greater than x (s sorted).
RECURSIVE Insert(_, _)
Insert(x, s) ==
    IF s = <<>> THEN <<x>>
    ELSE IF Less(s[1], x) THEN <<s[1]>> \o Insert(x, Tail(s))
    ELSE <<x>> \o s

RECURSIVE Sorted(_)
Sorted(s) == IF s = <<>> THEN <<>> ELSE Insert(s[1], Sorted(Tail(s)))

RECURSIVE Sum(_)
Sum(s) == IF s = <<>> THEN Zero ELSE Add(s[1], Sum(Tail(s)))

\* np.mean: sum / count; the mean of an empty array is nan (0/0).
Mean(s) == Div(Sum(s), OfInt(Len(s)))

\* A median that takes the upper middle element and never averages.
MedianUpper(s) ==
    IF s = <<>> THEN NaN ELSE Sorted(s)[(Len(s) \div 2) + 1]

\* np.median: the middle element of the sorted array, the mean of the two
\* middle elements when the length is even, nan for an empty array.
Median(s) ==
    LET n == Len(s)
        t == Sorted(s)
    IN  IF n = 0 THEN NaN
        ELSE IF n % 2 = 1 THEN t[(n + 1) \div 2]
        ELSE Div(Add(t[n \div 2], t[(n \div 2) + 1]), OfInt(2))

\* array - scalar, array / scalar (broadcast, element by element).
SubScalar(s, x) == [k \in 1..Len(s) |-> Sub(s[k], x)]
DivScalar(s, x) == [k \in 1..Len(s) |-> Div(s[k], x)]
MulScalar(s, x) == [k \in 1..Len(s) |-> Mul(s[k], x)]

-----------------------------------------------------------------------------
(* The statements of the cells, as operators *)

\* Line 459 with the "1 -" dropped.
ExcessFluxNoComplement(crowdsap, median) == Mul(crowdsap, median)

\* Line 459: excess_flux = (1-CROWDSAP)*median_flux
ExcessFlux(crowdsap, median) == Mul(Sub(One, crowdsap), median)

\* Line 461: flux_removed = corrected_lc.flux.value - excess_flux
FluxRemoved(fl, excess) == SubScalar(fl, excess)

\* Line 464: flux_corr = flux_removed/FLFRCSAP
FluxCorr(removed, flfrcsap) == DivScalar(removed, flfrcsap)

\* Line 466 with the division turned into a multiplication.
FluxErrCorrTimes(err, flfrcsap) == MulScalar(err, flfrcsap)

\* Line 466: flux_err_corr = corrected_lc.flux_err.value/FLFRCSAP
FluxErrCorr(err, flfrcsap) == DivScalar(err, flfrcsap)

\* Line 468: lk.LightCurve(time=, flux=, flux_err=) is a table of columns; it
\* raises ValueError unless the columns have one length.
SameLength(t, fl, er) == Len(t) = Len(fl) /\ Len(fl) = Len(er)

LightCurve(t, fl, er) == [time |-> t, flux |-> fl, flux_err |-> er]

NoLightCurve == LightCurve(<<>>, <<>>, <<>>)

\* Line 517 dividing by the mean of the errors instead of the mean flux.
NormalisedErrByErrMean(lc) == DivScalar(lc.flux_err, Mean(lc.flux_err))

\* Line 517: e = lc_cbv_corr.flux_err/np.mean(lc_cbv_corr.flux)
NormalisedErr(lc) == DivScalar(lc.flux_err, Mean(lc.flux))

\* Line 518: f = lc_cbv_corr.flux/np.mean(lc_cbv_corr.flux)
NormalisedFlux(lc) == DivScalar(lc.flux, Mean(lc.flux))

\* open(fname, 'a'): the content already in the file is kept.
OpenAppend(old) == old

\* Line 529: open(fname, 'w') creates the file or truncates it.
OpenWrite(old) == <<>>

\* A plain open() without the with statement: nothing closes the handle.
ExitLeavesOpen(handle) == handle

\* Line 529: leaving the with statement, normally or by an exception,
\* closes the file.
ExitWith(handle) == "closed"

\* '{}'.format(x): the text of a number.
Str(x) ==
    IF IsNaN(x) THEN "nan"
    ELSE IF ~IsFinite(x) THEN (IF x[1] > 0 THEN "inf" ELSE "-inf")
    ELSE IF x[2] = 1 THEN ToString(x[1])
    ELSE ToString(x[1]) \o "/" \o ToString(x[2])

\* The format of line 531 with single spaces between the fields.
FormatLineSingleSpaced(t, fv, ev) ==
    <<Str(t), " ", Str(fv), " ", Str(ev), " ", "\n">>

\* Line 531: '{}  {} {} \n'.format(time[i], f[i], e[i]), piece by piece.
FormatLine(t, fv, ev) ==
    <<Str(t), " ", " ", Str(fv), " ", Str(ev), " ", "\n">>

-----------------------------------------------------------------------------
(* Inputs of the run *)

FluxValues == {OfInt(90), OfInt(100), OfInt(110)}
ErrValues == {Zero, OfInt(5)}
CrowdValues == {Zero, Num(96, 100), One}
FlfrcValues == {Zero, Num(93, 100), One}

SeqsUpTo(S, n) == UNION {[1..m -> S] : m \in 0..n}

\* Time stamps of m cadences, ascending.
TimeAxis(m) == [k \in 1..m |-> OfInt(k)]

\* What the file may hold before the run; no file is the empty content.
OldContents == {<<>>, <<"#", " ", "old", "\n">>}

\* The corrections the notebook asks of the corrector, by method, CBV types
\* and regularisation.
Correction(method, cbv_type, alpha) ==
    [method |-> method, cbv_type |-> cbv_type, alpha |-> alpha]

\* Lines 269-274
SingleScaleSpikePrior ==
    Correction("correct_gaussian_prior", <<"SingleScale", "Spike">>, "1e-4")

\* Lines 317-320: alpha is found by the search for the target scores.
SingleScaleSpikeScores ==
    Correction("correct", <<"SingleScale", "Spike">>, "optimised")

\* Lines 370-374
SpikePrior == Correction("correct_gaussian_prior", <<"Spike">>, "1e-4")

\* Line 192: a new CBVCorrector holds no corrected light curve.
NoCorrection == Correction("none", <<>>, "none")

\* The state once the cells above the crowding correction have run in
\* order: the pixel file and the corrector exist, the last correction asked
\* for is the Spike-only one, CROWDSAP and FLFRCSAP are read
\* (lines 421, 431).  The time axis comes from the pixel file, flux and
\* flux_err from the corrector's light curve; the cells state no relation
\* between their lengths.
Init ==
    /\ time \in {TimeAxis(m) : m \in 0..MaxLen}
    /\ flux \in SeqsUpTo(FluxValues, MaxLen)
    /\ flux_err \in SeqsUpTo(ErrValues, MaxLen)
    /\ corrected_by = SpikePrior
    /\ CROWDSAP \in CrowdValues
    /\ FLFRCSAP \in FlfrcValues
    /\ median_flux = NaN
    /\ excess_flux = NaN
    /\ flux_removed = <<>>
    /\ flux_corr = <<>>
    /\ flux_err_corr = <<>>
    /\ lc_cbv_corr = NoLightCurve
    /\ e = <<>>
    /\ f = <<>>
    /\ disk \in OldContents
    /\ datos = "none"
    /\ i = 0
    /\ bound = {}
    /\ exc = "none"
    /\ pc = "median"

Inputs == <<time, flux, flux_err, corrected_by, CROWDSAP, FLFRCSAP>>
Export == <<disk, datos, i>>

-----------------------------------------------------------------------------
(* Crowding-correction cell *)

\* Line 457: median_flux = np.median(cbvCorrector.corrected_lc.flux.value)
ComputeMedian ==
    /\ pc = "median"
    /\ median_flux' = Median(flux)
    /\ bound' = bound \cup {"median_flux"}
    /\ pc' = "excess"
    /\ UNCHANGED <<Inputs, Export, excess_flux, flux_removed, flux_corr,
                   flux_err_corr, lc_cbv_corr, e, f, exc>>

\* Line 459
ComputeExcess ==
    /\ pc = "excess"
    /\ excess_flux' = ExcessFlux(CROWDSAP, median_flux)
    /\ bound' = bound \cup {"excess_flux"}
    /\ pc' = "removed"
    /\ UNCHANGED <<Inputs, Export, median_flux, flux_removed, flux_corr,
                   flux_err_corr, lc_cbv_corr, e, f, exc>>

\* Line 461
ComputeFluxRemoved ==
    /\ pc = "removed"
    /\ flux_removed' = FluxRemoved(flux, excess_flux)
    /\ bound' = bound \cup {"flux_removed"}
    /\ pc' = "corr"
    /\ UNCHANGED <<Inputs, Export, median_flux, excess_flux, flux_corr,
                   flux_err_corr, lc_cbv_corr, e, f, exc>>

\* Line 464
ComputeFluxCorr ==
    /\ pc = "corr"
    /\ flux_corr' = FluxCorr(flux_removed, FLFRCSAP)
    /\ bound' = bound \cup {"flux_corr"}
    /\ pc' = "err_corr"
    /\ UNCHANGED <<Inputs, Export, median_flux, excess_flux, flux_removed,
                   flux_err_corr, lc_cbv_corr, e, f, exc>>

\* Line 466
ComputeFluxErrCorr ==
    /\ pc = "err_corr"
    /\ flux_err_corr' = FluxErrCorr(flux_err, FLFRCSAP)
    /\ bound' = bound \cup {"flux_err_corr"}
    /\ pc' = "lightcurve"
    /\ UNCHANGED <<Inputs, Export, median_flux, excess_flux, flux_removed,
                   flux_corr, lc_cbv_corr, e, f, exc>>

\* Line 468: lc_cbv_corr = lk.LightCurve(time=tpf.time.value,
\*                                       flux=flux_corr, flux_err=flux_err_corr)
MakeLightCurve ==
    /\ pc = "lightcurve"
    /\ SameLength(time, flux_corr, flux_err_corr)
    /\ lc_cbv_corr' = LightCurve(time, flux_corr, flux_err_corr)
    /\ bound' = bound \cup {"lc_cbv_corr"}
    /\ pc' = "norm_e"
    /\ UNCHANGED <<Inputs, Export, median_flux, excess_flux, flux_removed,
                   flux_corr, flux_err_corr, e, f, exc>>

\* Line 468 when the columns differ in length: the constructor raises and
\* the run ends there.
LightCurveRaises ==
    /\ pc = "lightcurve"
    /\ ~SameLength(time, flux_corr, flux_err_corr)
    /\ exc' = "ValueError"
    /\ pc' = "error"
    /\ UNCHANGED <<Inputs, Export, median_flux, excess_flux, flux_removed,
                   flux_corr, flux_err_corr, lc_cbv_corr, e, f, bound>>

-----------------------------------------------------------------------------
(* Normalisation cell *)

\* Line 517
NormaliseErr ==
    /\ pc = "norm_e"
    /\ e' = NormalisedErr(lc_cbv_corr)
    /\ bound' = bound \cup {"e"}
    /\ pc' = "norm_f"
    /\ UNCHANGED <<Inputs, Export, median_flux, excess_flux, flux_removed,
                   flux_corr, flux_err_corr, lc_cbv_corr, f, exc>>

\* Line 518
NormaliseFlux ==
    /\ pc = "norm_f"
    /\ f' = NormalisedFlux(lc_cbv_corr)
    /\ bound' = bound \cup {"f"}
    /\ pc' = "open"
    /\ UNCHANGED <<Inputs, Export, median_flux, excess_flux, flux_removed,
                   flux_corr, flux_err_corr, lc_cbv_corr, e, exc>>

-----------------------------------------------------------------------------
(* Save cell *)

Computed == <<median_flux, excess_flux, flux_removed, flux_corr,
              flux_err_corr, lc_cbv_corr, e, f>>

\* Line 529: with open(fname,'w') as datos
OpenFile ==
    /\ pc = "open"
    /\ disk' = OpenWrite(disk)
    /\ datos' = "open"
    /\ i' = 0
    /\ bound' = bound \cup {"datos"}
    /\ pc' = "write"
    /\ UNCHANGED <<Inputs, Computed, exc>>

\* Lines 530-531: one iteration of the loop over range(len(lc_cbv_corr.time))
WriteLine ==
    /\ pc = "write"
    /\ i < Len(lc_cbv_corr.time)
    /\ disk' = disk \o FormatLine(lc_cbv_corr.time[i + 1], f[i + 1], e[i + 1])
    /\ i' = i + 1
    /\ UNCHANGED <<Inputs, Computed, datos, bound, exc, pc>>

\* Line 531 when the write fails (OSError, e.g. the disk is full): the with
\* statement closes the handle and the exception ends the run.
WriteRaises ==
    /\ pc = "write"
    /\ i < Len(lc_cbv_corr.time)
    /\ datos' = ExitWith(datos)
    /\ exc' = "OSError"
    /\ pc' = "error"
    /\ UNCHANGED <<Inputs, Computed, disk, i, bound>>

\* Line 529: the loop is over, the with statement closes the handle.
CloseFile ==
    /\ pc = "write"
    /\ i = Len(lc_cbv_corr.time)
    /\ datos' = ExitWith(datos)
    /\ pc' = "done"
    /\ UNCHANGED <<Inputs, Computed, disk, i, bound, exc>>

Next ==
    \/ ComputeMedian
    \/ ComputeExcess
    \/ ComputeFluxRemoved
    \/ ComputeFluxCorr
    \/ ComputeFluxErrCorr
    \/ MakeLightCurve
    \/ LightCurveRaises
    \/ NormaliseErr
    \/ NormaliseFlux
    \/ OpenFile
    \/ WriteLine
    \/ WriteRaises
    \/ CloseFile

Spec == Init /\ [][Next]_vars

-----------------------------------------------------------------------------
(* The correction cells above the crowding correction *)

\* The light curve the corrector stores, with the correction it came from.
CorrectedLc == [by |-> corrected_by, flux |-> flux, flux_err |-> flux_err]

\* A corrector that keeps the first corrected light curve it computed.
KeepFirstCorrected(old, new) == IF old.by = NoCorrection THEN new ELSE old

\* cbvCorrector.correct_gaussian_prior(...) and cbvCorrector.correct(...)
\* assign the corrector's corrected_lc: the new light curve replaces the
\* stored one.
StoreCorrected(old, new) == new

\* Light curves the two SingleScale+Spike corrections may yield; no later
\* statement reads them.
EarlierResults ==
    {[flux |-> <<OfInt(110)>>, flux_err |-> <<OfInt(5)>>],
     [flux |-> <<OfInt(90), OfInt(100)>>, flux_err |-> <<Zero, OfInt(5)>>]}

\* Light curves the Spike-only correction may yield.
SpikeResults ==
    [flux : SeqsUpTo(FluxValues, MaxLen), flux_err : SeqsUpTo(ErrValues, MaxLen)]

\* One call of a correction method: the regression is the library's, its
\* result any light curve of results.
Corrects(by, results) ==
    \E r \in results :
        LET lc == StoreCorrected(CorrectedLc,
                      [by |-> by, flux |-> r.flux, flux_err |-> r.flux_err])
        IN  /\ corrected_by' = lc.by
            /\ flux' = lc.flux
            /\ flux_err' = lc.flux_err

\* Line 274
CorrectSingleScaleSpikePrior ==
    /\ pc = "gp_singlescale_spike"
    /\ Corrects(SingleScaleSpikePrior, EarlierResults)
    /\ pc' = "correct_scores"
    /\ UNCHANGED <<time, CROWDSAP, FLFRCSAP, Export, Computed, bound, exc>>

\* Lines 317-320
CorrectSingleScaleSpikeScores ==
    /\ pc = "correct_scores"
    /\ Corrects(SingleScaleSpikeScores, EarlierResults)
    /\ pc' = "gp_spike"
    /\ UNCHANGED <<time, CROWDSAP, FLFRCSAP, Export, Computed, bound, exc>>

\* Line 374; the cells between it and line 457 plot and read the header.
CorrectSpikePrior ==
    /\ pc = "gp_spike"
    /\ Corrects(SpikePrior, SpikeResults)
    /\ pc' = "median"
    /\ UNCHANGED <<time, CROWDSAP, FLFRCSAP, Export, Computed, bound, exc>>

CorrectionSteps == {"gp_singlescale_spike", "correct_scores", "gp_spike"}

\* The state once the corrector is built (line 192).
NotebookInit ==
    /\ time \in {TimeAxis(m) : m \in 0..MaxLen}
    /\ flux = <<>>
    /\ flux_err = <<>>
    /\ corrected_by = NoCorrection
    /\ CROWDSAP \in CrowdValues
    /\ FLFRCSAP \in FlfrcValues
    /\ median_flux = NaN
    /\ excess_flux = NaN
    /\ flux_removed = <<>>
    /\ flux_corr = <<>>
    /\ flux_err_corr = <<>>
    /\ lc_cbv_corr = NoLightCurve
    /\ e = <<>>
    /\ f = <<>>
    /\ disk \in OldContents
    /\ datos = "none"
    /\ i = 0
    /\ bound = {}
    /\ exc = "none"
    /\ pc = "gp_singlescale_spike"

NotebookNext ==
    \/ CorrectSingleScaleSpikePrior
    \/ CorrectSingleScaleSpikeScores
    \/ CorrectSpikePrior
    \/ Next

\* The notebook's cells run in order from the first correction.
NotebookSpec == NotebookInit /\ [][NotebookNext]_vars

-----------------------------------------------------------------------------
(* Vocabulary of the properties *)

Indices(s) == 1..Len(s)

InUnitInterval(x) == IsFinite(x) /\ ~Less(x, Zero) /\ ~Less(One, x)

\* FLFRCSAP in (0, 1]
ValidFraction(x) == InUnitInterval(x) /\ x # Zero

CountLess(s, v) == Cardinality({k \in Indices(s) : Less(s[k], v)})
CountGreater(s, v) == Cardinality({k \in Indices(s) : Less(v, s[k])})

\* The two middle values of a non-empty s by rank (one value when Len(s) is
\* odd), stated without sorting.
LowerMiddle(s) ==
    CHOOSE v \in {s[k] : k \in Indices(s)} :
        /\ CountLess(s, v) <= (Len(s) - 1) \div 2
        /\ CountGreater(s, v) <= Len(s) \div 2

UpperMiddle(s) ==
    CHOOSE v \in {s[k] : k \in Indices(s)} :
        /\ CountLess(s, v) <= Len(s) \div 2
        /\ CountGreater(s, v) <= (Len(s) - 1) \div 2

\* The standard median of a non-empty s.
StandardMedian(s) == Div(Add(LowerMiddle(s), UpperMiddle(s)), OfInt(2))

\* The newline-terminated lines of a file content, and what follows the
\* last newline.
RECURSIVE Split(_, _, _)
Split(c, cur, acc) ==
    IF c = <<>> THEN [lines |-> acc, rest |-> cur]
    ELSE IF c[1] = "\n"
         THEN Split(Tail(c), <<>>, Append(acc, Append(cur, "\n")))
         ELSE Split(Tail(c), Append(cur, c[1]), acc)

Lines(c) == Split(c, <<>>, <<>>).lines
Rest(c) == Split(c, <<>>, <<>>).rest

IsBlank(p) == p = " " \/ p = "\n"
IsField(p) == ~IsBlank(p)

\* The whitespace-delimited fields of a line.
Fields(line) == SelectSeq(line, IsField)

AllFinite(s) == \A k \in Indices(s) : IsFinite(s[k])

-----------------------------------------------------------------------------
(* C1 *)

\* C1: for a non-empty flux, CROWDSAP in [0,1] and FLFRCSAP in (0,1], once the
\* crowding correction has run, median_flux is the standard median of flux,
\* the same excess_flux = (1 - CROWDSAP) * median_flux is subtracted at every
\* index, and flux_corr[k] = (flux[k] - excess_flux) / FLFRCSAP for every k;
\* flux = [100,110,90] with CROWDSAP = 0.96 gives median_flux = 100,
\* excess_flux = 4, flux_removed = [96,106,86].
C1_CrowdingFormula ==
    ("flux_corr" \in bound /\ flux # <<>>
        /\ InUnitInterval(CROWDSAP) /\ ValidFraction(FLFRCSAP)) =>
    LET m == StandardMedian(flux)
        x == Mul(Sub(One, CROWDSAP), m)
    IN  /\ median_flux = m
        /\ excess_flux = x
        /\ Len(flux_removed) = Len(flux)
        /\ Len(flux_corr) = Len(flux)
        /\ \A k \in Indices(flux) :
              /\ Add(flux_removed[k], x) = flux[k]
              /\ IsFinite(flux_corr[k])
              /\ Add(Mul(flux_corr[k], FLFRCSAP), x) = flux[k]
        /\ (flux = <<OfInt(100), OfInt(110), OfInt(90)>>
                /\ CROWDSAP = Num(96, 100)) =>
              /\ median_flux = OfInt(100)
              /\ excess_flux = OfInt(4)
              /\ flux_removed = <<OfInt(96), OfInt(106), OfInt(86)>>

C1_Witness ==
    /\ "flux_corr" \in bound
    /\ flux = <<OfInt(100), OfInt(110), OfInt(90)>>
    /\ CROWDSAP = Num(96, 100)
    /\ FLFRCSAP = Num(93, 100)
    /\ flux_corr = <<Num(9600, 93), Num(10600, 93), Num(8600, 93)>>

-----------------------------------------------------------------------------
(* C2 *)

\* C2 as stated: with CROWDSAP = 1 and any valid FLFRCSAP, flux_corr equals
\* flux at every index.
C2_FluxCorrEqualsFlux ==
    ("flux_corr" \in bound /\ CROWDSAP = One /\ ValidFraction(FLFRCSAP)) =>
        flux_corr = flux

\* C2 amended: with CROWDSAP = 1 and a valid FLFRCSAP no excess is subtracted
\* (flux_removed = flux) and flux_corr[k] = flux[k] / FLFRCSAP at every
\* index; in particular flux_corr equals flux when FLFRCSAP = 1.
C2_NoExcessSubtracted ==
    ("flux_corr" \in bound /\ CROWDSAP = One /\ ValidFraction(FLFRCSAP)) =>
        /\ flux # <<>> => excess_flux = Zero
        /\ flux_removed = flux
        /\ Len(flux_corr) = Len(flux)
        /\ \A k \in Indices(flux) :
              /\ IsFinite(flux_corr[k])
              /\ Mul(flux_corr[k], FLFRCSAP) = flux[k]
        /\ FLFRCSAP = One => flux_corr = flux

C2_Witness ==
    /\ "flux_corr" \in bound
    /\ CROWDSAP = One
    /\ FLFRCSAP = Num(93, 100)
    /\ flux = <<OfInt(100), OfInt(110), OfInt(90)>>
    /\ flux_corr[1] = Num(10000, 93)

-----------------------------------------------------------------------------
(* C3, C4, C5: error handling *)

NonFiniteText == {"nan", "inf", "-inf"}

\* C3: when FLFRCSAP = 0 the run (of a non-empty light curve, the empty one
\* being C4's case) fails at the correction step: flux_corr is never bound
\* and nothing after it runs, no output file is produced, and no infinite or
\* nan value reaches flux_corr, flux_err_corr or the file.
C3_ZeroFractionFailsFast ==
    (FLFRCSAP = Zero /\ flux # <<>>) =>
        /\ "flux_corr" \notin bound
        /\ pc \in {"median", "excess", "removed", "corr", "error"}
        /\ datos = "none"
        /\ AllFinite(flux_corr) /\ AllFinite(flux_err_corr)
        /\ datos # "none" =>
              \A k \in Indices(disk) : disk[k] \notin NonFiniteText

\* C4: when the flux sequence is empty the run raises at the median step:
\* median_flux is never bound, nothing after it runs, no file is written.
C4_EmptyInputFailsAtMedian ==
    flux = <<>> =>
        /\ "median_flux" \notin bound
        /\ pc \in {"median", "error"}
        /\ datos = "none"

-----------------------------------------------------------------------------
(* C6, C7: the exported file *)

\* C6: after a successful export of n samples the file holds exactly n
\* newline-terminated lines and nothing else (no header, nothing of the
\* content it held before), and the k-th line is the line of sample k: its
\* fields are the texts of time[k], f[k], e[k].
C6_ExactlyOneLinePerSample ==
    pc = "done" =>
        /\ Rest(disk) = <<>>
        /\ Len(Lines(disk)) = Len(time)
        /\ Len(f) = Len(time) /\ Len(e) = Len(time)
        /\ \A k \in Indices(time) :
              Fields(Lines(disk)[k]) = <<Str(time[k]), Str(f[k]), Str(e[k])>>

C6_Witness ==
    /\ pc = "done"
    /\ Len(time) = 3
    /\ Len(Lines(disk)) = 3
    /\ Fields(Lines(disk)[3])[1] = "3"

\* C7 as stated: every line written by the export is
\* "{time} {normalized_flux} {normalized_flux_err} \n": three fields, a single
\* space between adjacent fields, then one space and the newline.
C7_SingleSpacedLayout ==
    datos # "none" =>
        \A k \in Indices(Lines(disk)) :
            LET line == Lines(disk)[k]
            IN  /\ Len(line) = 7
                /\ IsField(line[1]) /\ line[2] = " "
                /\ IsField(line[3]) /\ line[4] = " "
                /\ IsField(line[5]) /\ line[6] = " "
                /\ line[7] = "\n"

\* C7 amended: every line written by the export is
\* "{time}  {normalized_flux} {normalized_flux_err} \n": the three fields in
\* that column order, two spaces between time and flux, one space between
\* flux and error, then one space and the newline.
C7_LineLayout ==
    datos # "none" =>
        /\ Len(Lines(disk)) = i
        /\ \A k \in Indices(Lines(disk)) :
              LET line == Lines(disk)[k]
              IN  /\ Len(line) = 8
                  /\ line[1] = Str(time[k])
                  /\ line[2] = " " /\ line[3] = " "
                  /\ line[4] = Str(f[k])
                  /\ line[5] = " "
                  /\ line[6] = Str(e[k])
                  /\ line[7] = " "
                  /\ line[8] = "\n"

C7_Witness ==
    /\ datos = "open"
    /\ i = 2
    /\ FLFRCSAP = Num(93, 100)
    /\ Lines(disk)[2][1] = "2"
    /\ Lines(disk)[2][2] = " "
    /\ Lines(disk)[2][3] = " "
    /\ IsField(Lines(disk)[2][4])

-----------------------------------------------------------------------------
(* C8, C9: propagated and normalised uncertainties *)

\* C8: for every valid (non-zero) FLFRCSAP and every index k,
\* flux_err_corr[k] = flux_err[k] / FLFRCSAP, that is flux_err_corr[k] *
\* FLFRCSAP = flux_err[k], and flux_err_corr[k] / flux_err[k] = 1 / FLFRCSAP
\* wherever that ratio is defined; CROWDSAP, flux and excess_flux do not
\* enter.
C8_ErrorScaledByFraction ==
    ("flux_err_corr" \in bound /\ ValidFraction(FLFRCSAP)) =>
        /\ Len(flux_err_corr) = Len(flux_err)
        /\ \A k \in Indices(flux_err) :
              /\ IsFinite(flux_err_corr[k])
              /\ Mul(flux_err_corr[k], FLFRCSAP) = flux_err[k]
              /\ flux_err[k] # Zero =>
                    FEq(Div(flux_err_corr[k], flux_err[k]), Div(One, FLFRCSAP))

C8_Witness ==
    /\ "flux_err_corr" \in bound
    /\ FLFRCSAP = Num(93, 100)
    /\ CROWDSAP = Num(96, 100)
    /\ flux = <<OfInt(100), OfInt(110), OfInt(90)>>
    /\ flux_err = <<OfInt(5), OfInt(5), OfInt(5)>>
    /\ flux_err_corr[1] = Num(500, 93)

MeanFlux == Mean(flux_corr)

\* C9 as stated, on the inputs the contract allows (CROWDSAP in [0,1],
\* FLFRCSAP in (0,1]): after the normalisation, for every index k with
\* flux_corr[k] != 0, e[k] / f[k] = flux_err_corr[k] / flux_corr[k].
C9_RelativeErrorPreserved ==
    ("e" \in bound /\ "f" \in bound
        /\ InUnitInterval(CROWDSAP) /\ ValidFraction(FLFRCSAP)) =>
        \A k \in Indices(flux_corr) :
            ~FEq(flux_corr[k], Zero) =>
                FEq(Div(e[k], f[k]), Div(flux_err_corr[k], flux_corr[k]))

\* C9 amended: when mean(flux_corr) is finite and not zero, e and f are
\* flux_err_corr and flux_corr divided by that same scalar, and for every
\* index k with flux_corr[k] != 0, e[k] / f[k] = flux_err_corr[k] /
\* flux_corr[k] (and e[k] * flux_corr[k] = f[k] * flux_err_corr[k]).
C9_RelativeErrorPreservedForNonZeroMean ==
    ("e" \in bound /\ "f" \in bound
        /\ IsFinite(MeanFlux) /\ MeanFlux # Zero) =>
        /\ Len(e) = Len(flux_corr) /\ Len(f) = Len(flux_corr)
        /\ \A k \in Indices(flux_corr) :
              /\ Mul(e[k], MeanFlux) = flux_err_corr[k]
              /\ Mul(f[k], MeanFlux) = flux_corr[k]
              /\ ~FEq(flux_corr[k], Zero) =>
                    /\ FEq(Div(e[k], f[k]),
                           Div(flux_err_corr[k], flux_corr[k]))
                    /\ FEq(Mul(e[k], flux_corr[k]),
                           Mul(f[k], flux_err_corr[k]))

C9_Witness ==
    /\ "e" \in bound /\ "f" \in bound
    /\ flux = <<OfInt(100), OfInt(110), OfInt(90)>>
    /\ flux_err = <<OfInt(5), OfInt(5), OfInt(5)>>
    /\ CROWDSAP = Num(96, 100)
    /\ FLFRCSAP = Num(93, 100)
    /\ f = <<One, Num(53, 48), Num(43, 48)>>
    /\ e = <<Num(5, 96), Num(5, 96), Num(5, 96)>>

-----------------------------------------------------------------------------
(* C10 *)

\* C10: in every state of the run from the crowding correction through the
\* export, time, flux and flux_err have one length n, every derived sequence
\* that has been computed has length n with index k computed from index k of
\* flux / flux_err, and line k of the file is written next to time[k]; the
\* time axis is the pixel file's, flux and flux_err (two columns of one
\* light curve, of one length, not empty) are the corrector's.
C10_LengthsAndAlignment ==
    (pc # "median" /\ flux # <<>> /\ Len(flux) = Len(flux_err)) =>
        /\ Len(time) = Len(flux) /\ Len(flux) = Len(flux_err)
        /\ "flux_removed" \in bound =>
              /\ Len(flux_removed) = Len(time)
              /\ \A k \in Indices(flux_removed) :
                    flux_removed[k] = Sub(flux[k], excess_flux)
        /\ "flux_corr" \in bound =>
              /\ Len(flux_corr) = Len(time)
              /\ \A k \in Indices(flux_corr) :
                    flux_corr[k] = Div(flux_removed[k], FLFRCSAP)
        /\ "flux_err_corr" \in bound =>
              /\ Len(flux_err_corr) = Len(time)
              /\ \A k \in Indices(flux_err_corr) :
                    flux_err_corr[k] = Div(flux_err[k], FLFRCSAP)
        /\ "e" \in bound => Len(e) = Len(time)
        /\ "f" \in bound => Len(f) = Len(time)
        /\ datos # "none" =>
              \A k \in Indices(Lines(disk)) :
                  Fields(Lines(disk)[k])[1] = Str(time[k])

-----------------------------------------------------------------------------
(* C11 *)

\* C11: the handle opened by the save cell is released on every exit path:
\* it is open only while the write loop is running, and when the cell has
\* ended, by completing all n iterations or by an error raised at some line
\* i, the handle is closed.
C11_HandleReleasedOnEveryExit ==
    /\ datos = "open" => pc = "write"
    /\ pc = "done" => datos = "closed"
    /\ (pc = "error" /\ exc = "OSError") => datos = "closed"
    /\ (pc = "error" /\ exc = "ValueError") => datos = "none"

\* The loop fails at its second line, after one line was written.
C11_Witness ==
    /\ pc = "error"
    /\ exc = "OSError"
    /\ i = 1
    /\ Len(lc_cbv_corr.time) = 3
    /\ Len(Lines(disk)) = 1
    /\ datos = "closed"

-----------------------------------------------------------------------------
(* C12 *)

====
